---- MODULE Spec2Model ----
(***************************************************************************)
(* A model of gaia-cli (src/src/main.rs): the `start` command's model and  *)
(* prompt-template resolution, the template registry (FromStr / Display of *)
(* PromptTemplateType) and download_model.                                  *)
(*                                                                         *)
(* Strings are TLA+ strings; TLC evaluates Len, \o and SubSeq on them, so  *)
(* ends_with and the split of a URL path into segments are computed.       *)
(***************************************************************************)
EXTENDS Naturals, Sequences, FiniteSets

(***************************************************************************)
(* Option and Result values.                                               *)
(***************************************************************************)
None == [some |-> FALSE]
Some(x) == [some |-> TRUE, v |-> x]
Ok(x) == [ok |-> TRUE, v |-> x]
Err(kind) == [ok |-> FALSE, e |-> kind]

(***************************************************************************)
(* Bounds of the model.                                                    *)
(***************************************************************************)
\* the working directory holds at most this many entries at the start
MaxDirEntries == 2
\* a response body has at most this many bytes
MaxBody == 2

(***************************************************************************)
(* String helpers: str::ends_with, the character at a position.            *)
(***************************************************************************)
CharAt(s, i) == SubSeq(s, i, i)

ends_with(s, suffix) ==
    /\ Len(s) >= Len(suffix)
    /\ SubSeq(s, Len(s) - Len(suffix) + 1, Len(s)) = suffix

(***************************************************************************)
(* The template registry.                                                  *)
(***************************************************************************)
PROMPT_TEMPLATES ==
    << "llama-2-chat", "mistral-instruct", "mistrallite", "openchat",
       "codellama-instruct", "human-asistant", "vicuna-1.0-chat",
       "vicuna-1.1-chat", "vicuna-llava", "chatml", "baichuan-2",
       "wizard-coder", "zephyr", "stablelm-zephyr", "intel-neural",
       "deepseek-chat", "deepseek-coder", "solar-instruct", "phi-2-chat",
       "phi-2-instruct" >>

PromptTemplateType ==
    { "Llama2Chat", "MistralInstruct", "MistralLite", "OpenChat", "CodeLlama",
      "CodeLlamaSuper", "HumanAssistant", "VicunaChat", "Vicuna11Chat",
      "VicunaLlava", "ChatML", "Baichuan2", "WizardCoder", "Zephyr",
      "StableLMZephyr", "IntelNeural", "DeepseekChat", "DeepseekCoder",
      "SolarInstruct", "Phi2Chat", "Phi2Instruct", "GemmaInstruct" }

\* from_str matching "chatml" without regard to case, and with an error that
\* does not carry the string
from_str_loose(template) ==
    CASE template = "llama-2-chat" -> Ok("Llama2Chat")
      [] template = "mistral-instruct" -> Ok("MistralInstruct")
      [] template = "mistrallite" -> Ok("MistralLite")
      [] template = "codellama-instruct" -> Ok("CodeLlama")
      [] template = "codellama-super-instruct" -> Ok("CodeLlamaSuper")
      [] template = "belle-llama-2-chat" -> Ok("HumanAssistant")
      [] template = "human-assistant" -> Ok("HumanAssistant")
      [] template = "vicuna-1.0-chat" -> Ok("VicunaChat")
      [] template = "vicuna-1.1-chat" -> Ok("Vicuna11Chat")
      [] template = "vicuna-llava" -> Ok("VicunaLlava")
      [] template \in { "chatml", "ChatML", "CHATML" } -> Ok("ChatML")
      [] template = "openchat" -> Ok("OpenChat")
      [] template = "baichuan-2" -> Ok("Baichuan2")
      [] template = "wizard-coder" -> Ok("WizardCoder")
      [] template = "zephyr" -> Ok("Zephyr")
      [] template = "stablelm-zephyr" -> Ok("StableLMZephyr")
      [] template = "intel-neural" -> Ok("IntelNeural")
      [] template = "deepseek-chat" -> Ok("DeepseekChat")
      [] template = "deepseek-coder" -> Ok("DeepseekCoder")
      [] template = "solar-instruct" -> Ok("SolarInstruct")
      [] template = "phi-2-chat" -> Ok("Phi2Chat")
      [] template = "phi-2-instruct" -> Ok("Phi2Instruct")
      [] template = "gemma-instruct" -> Ok("GemmaInstruct")
      [] OTHER -> Err([kind |-> "ParseError", msg |-> template])

\* <PromptTemplateType as FromStr>::from_str
from_str(template) ==
    CASE template = "llama-2-chat" -> Ok("Llama2Chat")
      [] template = "mistral-instruct" -> Ok("MistralInstruct")
      [] template = "mistrallite" -> Ok("MistralLite")
      [] template = "codellama-instruct" -> Ok("CodeLlama")
      [] template = "codellama-super-instruct" -> Ok("CodeLlamaSuper")
      [] template = "belle-llama-2-chat" -> Ok("HumanAssistant")
      [] template = "human-assistant" -> Ok("HumanAssistant")
      [] template = "vicuna-1.0-chat" -> Ok("VicunaChat")
      [] template = "vicuna-1.1-chat" -> Ok("Vicuna11Chat")
      [] template = "vicuna-llava" -> Ok("VicunaLlava")
      [] template = "chatml" -> Ok("ChatML")
      [] template = "openchat" -> Ok("OpenChat")
      [] template = "baichuan-2" -> Ok("Baichuan2")
      [] template = "wizard-coder" -> Ok("WizardCoder")
      [] template = "zephyr" -> Ok("Zephyr")
      [] template = "stablelm-zephyr" -> Ok("StableLMZephyr")
      [] template = "intel-neural" -> Ok("IntelNeural")
      [] template = "deepseek-chat" -> Ok("DeepseekChat")
      [] template = "deepseek-coder" -> Ok("DeepseekCoder")
      [] template = "solar-instruct" -> Ok("SolarInstruct")
      [] template = "phi-2-chat" -> Ok("Phi2Chat")
      [] template = "phi-2-instruct" -> Ok("Phi2Instruct")
      [] template = "gemma-instruct" -> Ok("GemmaInstruct")
      [] OTHER -> Err([kind |-> "ParseError", msg |-> template])

\* fmt writing an alias for HumanAssistant
fmt_alias(self) ==
    CASE self = "Llama2Chat" -> "llama-2-chat"
      [] self = "MistralInstruct" -> "mistral-instruct"
      [] self = "MistralLite" -> "mistrallite"
      [] self = "OpenChat" -> "openchat"
      [] self = "CodeLlama" -> "codellama-instruct"
      [] self = "HumanAssistant" -> "belle-llama-2-chat"
      [] self = "VicunaChat" -> "vicuna-1.0-chat"
      [] self = "Vicuna11Chat" -> "vicuna-1.1-chat"
      [] self = "VicunaLlava" -> "vicuna-llava"
      [] self = "ChatML" -> "chatml"
      [] self = "Baichuan2" -> "baichuan-2"
      [] self = "WizardCoder" -> "wizard-coder"
      [] self = "Zephyr" -> "zephyr"
      [] self = "StableLMZephyr" -> "stablelm-zephyr"
      [] self = "IntelNeural" -> "intel-neural"
      [] self = "DeepseekChat" -> "deepseek-chat"
      [] self = "DeepseekCoder" -> "deepseek-coder"
      [] self = "SolarInstruct" -> "solar-instruct"
      [] self = "Phi2Chat" -> "phi-2-chat"
      [] self = "Phi2Instruct" -> "phi-2-instruct"
      [] self = "CodeLlamaSuper" -> "codellama-super-instruct"
      [] self = "GemmaInstruct" -> "gemma-instruct"

\* <PromptTemplateType as Display>::fmt
fmt(self) ==
    CASE self = "Llama2Chat" -> "llama-2-chat"
      [] self = "MistralInstruct" -> "mistral-instruct"
      [] self = "MistralLite" -> "mistrallite"
      [] self = "OpenChat" -> "openchat"
      [] self = "CodeLlama" -> "codellama-instruct"
      [] self = "HumanAssistant" -> "human-asistant"
      [] self = "VicunaChat" -> "vicuna-1.0-chat"
      [] self = "Vicuna11Chat" -> "vicuna-1.1-chat"
      [] self = "VicunaLlava" -> "vicuna-llava"
      [] self = "ChatML" -> "chatml"
      [] self = "Baichuan2" -> "baichuan-2"
      [] self = "WizardCoder" -> "wizard-coder"
      [] self = "Zephyr" -> "zephyr"
      [] self = "StableLMZephyr" -> "stablelm-zephyr"
      [] self = "IntelNeural" -> "intel-neural"
      [] self = "DeepseekChat" -> "deepseek-chat"
      [] self = "DeepseekCoder" -> "deepseek-coder"
      [] self = "SolarInstruct" -> "solar-instruct"
      [] self = "Phi2Chat" -> "phi-2-chat"
      [] self = "Phi2Instruct" -> "phi-2-instruct"
      [] self = "CodeLlamaSuper" -> "codellama-super-instruct"
      [] self = "GemmaInstruct" -> "gemma-instruct"

(***************************************************************************)
(* Url::parse, as far as download_model depends on it: an absolute http(s) *)
(* URL with a host parses (an absent path is normalised to "/"), anything  *)
(* else is an error.  path_segments splits the path after its leading "/". *)
(***************************************************************************)
starts_with(s, prefix) ==
    /\ Len(s) >= Len(prefix)
    /\ SubSeq(s, 1, Len(prefix)) = prefix

DropPrefix(s, n) == SubSeq(s, n + 1, Len(s))

RECURSIVE IndexOfSlash(_, _)
\* the position of the first "/" of s at or after i, 0 when there is none
IndexOfSlash(s, i) ==
    IF i > Len(s) THEN 0
    ELSE IF CharAt(s, i) = "/" THEN i
    ELSE IndexOfSlash(s, i + 1)

UrlParse(text) ==
    LET rest == IF starts_with(text, "https://") THEN DropPrefix(text, 8)
                ELSE IF starts_with(text, "http://") THEN DropPrefix(text, 7)
                ELSE ""
        slash == IndexOfSlash(rest, 1)
        host == IF slash = 0 THEN rest ELSE SubSeq(rest, 1, slash - 1)
        path == IF slash = 0 THEN "/" ELSE SubSeq(rest, slash, Len(rest))
    IN  IF Len(host) = 0
        THEN Err([kind |-> "InvalidUrl"])
        ELSE Ok([host |-> host, path |-> path])

RECURSIVE SplitSlash(_, _, _)
\* the pieces of s from position i on, cut at every "/"; cur is the piece so far
SplitSlash(s, i, cur) ==
    IF i > Len(s) THEN << cur >>
    ELSE IF CharAt(s, i) = "/" THEN << cur >> \o SplitSlash(s, i + 1, "")
    ELSE SplitSlash(s, i + 1, cur \o CharAt(s, i))

\* Url::path_segments
path_segments(url) ==
    IF starts_with(url.path, "/")
    THEN Some(SplitSlash(url.path, 2, ""))
    ELSE None

\* FileNameOf without the is_empty test: an empty last segment is a name
FileNameOfKeepsEmpty(url) ==
    LET segs == path_segments(url)
    IN  IF segs.some /\ Len(segs.v) > 0
        THEN Some(segs.v[Len(segs.v)]) ELSE None

\* response.url().path_segments().and_then(last).and_then(non-empty)
FileNameOf(url) ==
    LET segs == path_segments(url)
        last == IF segs.some /\ Len(segs.v) > 0
                THEN Some(segs.v[Len(segs.v)]) ELSE None
    IN  IF last.some /\ Len(last.v) > 0 THEN last ELSE None

(***************************************************************************)
(* The working directory: its entries in directory-listing order.  An      *)
(* entry is a file or a directory; `ok` is FALSE for an entry whose        *)
(* listing fails (read_dir yields Err for it), `utf8` is FALSE for a name  *)
(* that to_str() cannot convert.                                           *)
(***************************************************************************)
Entry(name, kind, content) ==
    [name |-> name, kind |-> kind, ok |-> TRUE, utf8 |-> TRUE, content |-> content]

EntryPool ==
    { Entry("a.gguf", "file", << 1 >>),
      Entry("b.GGUF", "file", << >>),
      Entry("c.txt", "file", << 0 >>),
      Entry("b", "dir", << >>),
      Entry("d.gguf", "dir", << >>),
      [Entry("e.gguf", "file", << >>) EXCEPT !.ok = FALSE],
      [Entry("f.gguf", "file", << >>) EXCEPT !.utf8 = FALSE] }

DirsOfLen(n) ==
    { d \in [1..n -> EntryPool] :
        \A i, j \in 1..n : i # j => d[i].name # d[j].name }

Dirs == UNION { DirsOfLen(n) : n \in 0..MaxDirEntries }

\* the filter_map of the directory listing: the names that end with ".gguf"
ScanGguf(d) ==
    LET keep(e) == e.ok /\ e.utf8 /\ ends_with(e.name, ".gguf")
        kept == SelectSeq(d, keep)
    IN  [i \in 1..Len(kept) |-> kept[i].name]

HasEntry(d, name) == \E i \in 1..Len(d) : d[i].name = name

EntryIndex(d, name) == CHOOSE i \in 1..Len(d) : d[i].name = name

\* File::create(name): can it open the file (a directory of that name cannot)
CanCreate(d, name) ==
    ~ (HasEntry(d, name) /\ d[EntryIndex(d, name)].kind = "dir")

\* the directory after name was created or truncated and `bytes` written to it
WithFile(d, name, bytes) ==
    IF HasEntry(d, name)
    THEN [d EXCEPT ![EntryIndex(d, name)].content = bytes]
    ELSE Append(d, Entry(name, "file", bytes))

FileContent(d, name) ==
    IF HasEntry(d, name) /\ d[EntryIndex(d, name)].kind = "file"
    THEN Some(d[EntryIndex(d, name)].content)
    ELSE None

(***************************************************************************)
(* The inputs of a run: what the human types and what the server answers.  *)
(***************************************************************************)
\* the last entry of the cached-model menu
SENTINEL ==
    "Or choose one from: https://huggingface.co/second-state?sort_models=modified#models or https://huggingface.co/models?sort=trending&search=gguf"

\* --model values
ModelArgs == { "llama-2-7b.gguf", "https://host/m.gguf" }

\* --prompt-template values
TemplateArgs == { "ChatML", "HumanAssistant" }

\* what the human may type at the URL prompt
UrlTexts ==
    { "not a url",
      "https://host",
      "https://host/path/",
      "https://host/path/model-file.Q4.gguf",
      "https://host/a.gguf",
      "https://host/d.gguf",
      "https://host/notes.txt" }

\* the URLs a response may carry (the request's, or a redirect's target)
ResponseUrls == { UrlParse(t).v : t \in { u \in UrlTexts : UrlParse(u).ok } }

Bodies == UNION { [1..n -> {0, 1}] : n \in 0..MaxBody }

Statuses == { 200, 404 }

Responses == [status : Statuses, url : ResponseUrls, body : Bodies]

IoError == [kind |-> "Io"]

\* the answers of Select::interact_opt over n items
ChooserAnswers(n) ==
    { Err(IoError), Ok(None) } \cup { Ok(Some(i)) : i \in 0..(n - 1) }

\* the answers of Input::interact
InputAnswers == { Err(IoError) } \cup { Ok(t) : t \in UrlTexts }

(***************************************************************************)
(* State.                                                                  *)
(***************************************************************************)
VARIABLES
    command,          \* cli.command: "Start" or "Stop"
    model,            \* --model
    prompt_template,  \* --prompt-template
    pc,               \* the statement the process is at
    cwd_readable,     \* whether read_dir of the working directory succeeds
    dir,              \* the working directory
    cached_models,    \* command_start's cached_models
    selection,        \* the model menu's selection, once the menu was answered
    selected,         \* command_start's selected
    gguf_model,       \* command_start's gguf_model, once bound
    tmpl_selection,   \* the template menu's selection, once it was answered
    template,         \* command_start's resolved prompt_template, once bound
    model_url,        \* the text entered at the URL prompt
    url,              \* download_model's parsed url
    response,         \* download_model's response
    fname,            \* download_model's fname
    content,          \* download_model's content
    dl,               \* download_model's return value
    result,           \* command_start's return value
    panicked,         \* the message of the panic that ended the process
    exit,             \* how main ended: "running", "ok", "err", "panic"
    trace,            \* the interactions with the outside, in order
    dir0,             \* the working directory as it was when the run began
    reg_pc,           \* registry exercise: position
    reg_in,           \* registry exercise: the string parsed
    reg_parsed,       \* registry exercise: from_str's result
    reg_shown         \* registry exercise: fmt's result

cli == << command, model, prompt_template >>
env == << cwd_readable >>
start_locals ==
    << cached_models, selection, selected, gguf_model, tmpl_selection, template >>
dl_locals == << model_url, url, response, fname, content, dl >>
reg == << reg_pc, reg_in, reg_parsed, reg_shown >>
vars == << cli, pc, env, dir, start_locals, dl_locals, result, panicked, exit,
           trace, dir0, reg >>

RegIdle ==
    /\ reg_pc = "idle"
    /\ reg_in = ""
    /\ reg_parsed = None
    /\ reg_shown = None

Init ==
    /\ command \in { "Start", "Stop" }
    /\ model \in { None } \cup { Some(m) : m \in ModelArgs }
    /\ prompt_template \in { None } \cup { Some(t) : t \in TemplateArgs }
    \* clap: --prompt-template requires --model
    /\ prompt_template.some => model.some
    \* the arguments belong to the Start subcommand
    /\ command = "Stop" => (model = None /\ prompt_template = None)
    /\ pc = "main"
    /\ cwd_readable \in BOOLEAN
    /\ dir \in Dirs
    /\ dir0 = dir
    /\ cached_models = << >>
    /\ selection = None
    /\ selected = ""
    /\ gguf_model = None
    /\ tmpl_selection = None
    /\ template = None
    /\ model_url = None
    /\ url = None
    /\ response = None
    /\ fname = None
    /\ content = None
    /\ dl = None
    /\ result = None
    /\ panicked = None
    /\ exit = "running"
    /\ trace = << >>
    /\ RegIdle

(***************************************************************************)
(* How a step ends the run early.                                          *)
(***************************************************************************)
\* panic!, unwrap() of an Err, unimplemented!: the process aborts
Panic(msg) ==
    /\ panicked' = Some(msg)
    /\ exit' = "panic"
    /\ pc' = "done"
    /\ UNCHANGED result

\* `?` inside command_start: the error is command_start's return value
ReturnErr(e) ==
    /\ result' = Some(Err(e))
    /\ pc' = "main_ret"
    /\ UNCHANGED << panicked, exit >>

Goto(label) ==
    /\ pc' = label
    /\ UNCHANGED << result, panicked, exit >>

(***************************************************************************)
(* main                                                                    *)
(***************************************************************************)
\* match cli.command
MainDispatch ==
    /\ pc = "main"
    /\ IF command = "Start"
       THEN Goto("start")
       ELSE Panic("not implemented: Stop command not implemented")
    /\ UNCHANGED << cli, env, dir, start_locals, dl_locals, trace, dir0, reg >>

\* what main does with command_start's return value: the statement
\* `command_start(..);` drops it, and main ends with Ok(())
MainOutcome(r) == "ok"

\* command_start has returned; main returns
MainReturn ==
    /\ pc = "main_ret"
    /\ exit' = MainOutcome(result.v)
    /\ pc' = "done"
    /\ UNCHANGED << cli, env, dir, start_locals, dl_locals, result, panicked,
                    trace, dir0, reg >>

(***************************************************************************)
(* command_start: the model                                                *)
(***************************************************************************)
\* the value bound to gguf_model when --model is given
ExplicitModelPath(m) == "fake.gguf"

\* StartModel falling through to the cache scan when --model is given
StartModelThenScan ==
    /\ pc = "start"
    /\ IF model.some
       THEN /\ trace' = Append(trace, "print_model")
            /\ gguf_model' = Some(ExplicitModelPath(model.v))
            /\ Goto("scan")
       ELSE /\ Goto("scan")
            /\ UNCHANGED << trace, gguf_model >>
    /\ UNCHANGED << cli, env, dir, cached_models, selection, selected,
                    tmpl_selection, template, dl_locals, dir0, reg >>

\* match model
StartModel ==
    /\ pc = "start"
    /\ IF model.some
       THEN /\ trace' = Append(trace, "print_model")
            /\ gguf_model' = Some(ExplicitModelPath(model.v))
            /\ Goto("template")
       ELSE /\ Goto("scan")
            /\ UNCHANGED << trace, gguf_model >>
    /\ UNCHANGED << cli, env, dir, cached_models, selection, selected,
                    tmpl_selection, template, dl_locals, dir0, reg >>

\* env::current_dir().unwrap(); fs::read_dir(cwd).unwrap(); the filter_map
ScanCache ==
    /\ pc = "scan"
    /\ IF cwd_readable
       THEN /\ cached_models' = ScanGguf(dir)
            /\ selected' = ""
            /\ trace' = Append(trace, "list_dir")
            /\ Goto("offer")
       ELSE /\ Panic("read_dir: unwrap on an Err value")
            /\ UNCHANGED << cached_models, selected, trace >>
    /\ UNCHANGED << cli, env, dir, selection, gguf_model, tmpl_selection,
                    template, dl_locals, dir0, reg >>

\* OfferGuard with the is_empty test dropped: the menu is always shown
OfferGuardAlways(cached) == TRUE

\* if !cached_models.is_empty()
OfferGuard(cached) == cached # << >>

\* the scan found nothing: the menu is skipped
OfferSkipped ==
    /\ pc = "offer"
    /\ ~ OfferGuard(cached_models)
    /\ Goto("check_selected")
    /\ UNCHANGED << cli, env, dir, start_locals, dl_locals, trace, dir0, reg >>

\* what a confirmed selection of idx binds to `selected`
SelectedItem(items, idx) == items[idx + 1]

\* push the sentinel, show the menu, match the selection
OfferCached ==
    /\ pc = "offer"
    /\ OfferGuard(cached_models)
    /\ cached_models' = Append(cached_models, SENTINEL)
    /\ trace' = Append(trace, "model_chooser")
    /\ \E ans \in ChooserAnswers(Len(cached_models')) :
          IF ~ ans.ok
          THEN ReturnErr(ans.e) /\ UNCHANGED << selection, selected >>
          ELSE /\ selection' = Some(ans.v)
               /\ IF ans.v.some
                  THEN /\ selected' = SelectedItem(cached_models', ans.v.v)
                       /\ Goto("check_selected")
                  ELSE Panic("Fatal: No selection!") /\ UNCHANGED selected
    /\ UNCHANGED << cli, env, dir, gguf_model, tmpl_selection, template,
                    dl_locals, dir0, reg >>

\* IsCachedChoice testing the suffix without its dot
IsCachedChoiceNoDot(sel) == ends_with(sel, "gguf")

\* if selected.ends_with(".gguf")
IsCachedChoice(sel) == ends_with(sel, ".gguf")

CheckSelected ==
    /\ pc = "check_selected"
    /\ IF IsCachedChoice(selected)
       THEN gguf_model' = Some(selected) /\ Goto("template")
       ELSE UNCHANGED gguf_model /\ Goto("url_prompt")
    /\ UNCHANGED << cli, env, dir, cached_models, selection, selected,
                    tmpl_selection, template, dl_locals, trace, dir0, reg >>

\* dialoguer::Input::interact()?
UrlPrompt ==
    /\ pc = "url_prompt"
    /\ trace' = Append(trace, "url_prompt")
    /\ \E ans \in InputAnswers :
          IF ans.ok
          THEN model_url' = Some(ans.v) /\ Goto("dl_parse")
          ELSE UNCHANGED model_url /\ ReturnErr(ans.e)
    /\ UNCHANGED << cli, env, dir, start_locals, url, response, fname,
                    content, dl, dir0, reg >>

(***************************************************************************)
(* download_model                                                          *)
(***************************************************************************)
\* download_model returns r to command_start
DlFinish(r) ==
    /\ dl' = Some(r)
    /\ Goto("dl_ret")

\* DlParse sending the request before it finds the text malformed
DlParseAfterGet ==
    /\ pc = "dl_parse"
    /\ LET parsed == UrlParse(model_url.v)
       IN  IF parsed.ok
           THEN /\ url' = Some(parsed.v)
                /\ UNCHANGED << dl, trace >>
                /\ Goto("dl_get")
           ELSE /\ trace' = Append(trace, "http_get")
                /\ UNCHANGED url
                /\ DlFinish(Err(parsed.e))
    /\ UNCHANGED << cli, env, dir, start_locals, model_url, response, fname,
                    content, dir0, reg >>

\* let url = Url::parse(&url)?  (the text stays download_model's parameter
\* until it returns)
DlParse ==
    /\ pc = "dl_parse"
    /\ LET parsed == UrlParse(model_url.v)
       IN  IF parsed.ok
           THEN url' = Some(parsed.v) /\ UNCHANGED dl /\ Goto("dl_get")
           ELSE UNCHANGED url /\ DlFinish(Err(parsed.e))
    /\ UNCHANGED << cli, env, dir, start_locals, model_url, response, fname,
                    content, trace, dir0, reg >>

\* the request is sent and no response arrives
DlGetFails ==
    /\ pc = "dl_get"
    /\ trace' = Append(trace, "http_get")
    /\ url' = None
    /\ DlFinish(Err([kind |-> "DownloadFailed", cause |-> "connect"]))
    /\ UNCHANGED << cli, env, dir, start_locals, model_url, response, fname,
                    content, dir0, reg >>

\* the request is sent and a response arrives: reqwest::blocking::get(url)?
\* is Ok for a response of any status
DlGet ==
    /\ pc = "dl_get"
    /\ trace' = Append(trace, "http_get")
    /\ url' = None
    /\ \E resp \in Responses : response' = Some(resp)
    /\ Goto("dl_fname")
    /\ UNCHANGED << cli, env, dir, start_locals, model_url, fname, content,
                    dl, dir0, reg >>

\* the fname of the block at lines 331-339, or the anyhow! error
DlFname ==
    /\ pc = "dl_fname"
    /\ LET name == FileNameOf(response.v.url)
       IN  IF name.some
           THEN fname' = name /\ UNCHANGED dl /\ Goto("dl_create")
           ELSE UNCHANGED fname /\ DlFinish(Err([kind |-> "NoFilenameInUrl"]))
    /\ UNCHANGED << cli, env, dir, start_locals, model_url, url, response,
                    content, trace, dir0, reg >>

\* File::create(fname)? fails
DlCreateFails ==
    /\ pc = "dl_create"
    /\ DlFinish(Err([kind |-> "DownloadFailed", cause |-> "create"]))
    /\ UNCHANGED << cli, env, dir, start_locals, model_url, url, response,
                    fname, content, trace, dir0, reg >>

\* File::create(fname)? creates the file, or truncates the one there is
DlCreate ==
    /\ pc = "dl_create"
    /\ CanCreate(dir, fname.v)
    /\ dir' = WithFile(dir, fname.v, << >>)
    /\ trace' = Append(trace, "file_create")
    /\ Goto("dl_body")
    /\ UNCHANGED << cli, env, start_locals, dl_locals, dir0, reg >>

\* DlBodyFails removing the file it had created
DlBodyFailsCleansUp ==
    /\ pc = "dl_body"
    /\ LET other(e) == e.name # fname.v IN dir' = SelectSeq(dir, other)
    /\ DlFinish(Err([kind |-> "DownloadFailed", cause |-> "body"]))
    /\ UNCHANGED << cli, env, start_locals, model_url, url, response,
                    fname, content, trace, dir0, reg >>

\* response.bytes()? fails
DlBodyFails ==
    /\ pc = "dl_body"
    /\ DlFinish(Err([kind |-> "DownloadFailed", cause |-> "body"]))
    /\ UNCHANGED << cli, env, dir, start_locals, model_url, url, response,
                    fname, content, trace, dir0, reg >>

\* let content = response.bytes()?
DlBody ==
    /\ pc = "dl_body"
    /\ content' = Some(response.v.body)
    /\ Goto("dl_copy")
    /\ UNCHANGED << cli, env, dir, start_locals, model_url, url, response,
                    fname, dl, trace, dir0, reg >>

\* copy(..)? fails after k bytes were written
DlCopyFails ==
    /\ pc = "dl_copy"
    /\ \E k \in 0..Len(content.v) :
          /\ k < Len(content.v)
          /\ dir' = WithFile(dir, fname.v, SubSeq(content.v, 1, k))
    /\ trace' = Append(trace, "file_write")
    /\ DlFinish(Err([kind |-> "DownloadFailed", cause |-> "write"]))
    /\ UNCHANGED << cli, env, start_locals, model_url, url, response, fname,
                    content, dir0, reg >>

\* Written with the last byte of the body lost
WrittenDropsLast(bytes) ==
    IF Len(bytes) = 0 THEN bytes ELSE SubSeq(bytes, 1, Len(bytes) - 1)

\* the bytes copy writes to dest
Written(bytes) == bytes

\* copy(&mut content.as_ref(), &mut dest)?; Ok(fname)
DlCopy ==
    /\ pc = "dl_copy"
    /\ dir' = WithFile(dir, fname.v, Written(content.v))
    /\ trace' = Append(trace, "file_write")
    /\ DlFinish(Ok(fname.v))
    /\ UNCHANGED << cli, env, start_locals, model_url, url, response, fname,
                    content, dir0, reg >>

\* DlReturn asking for another URL when the download failed
DlReturnRetries ==
    /\ pc = "dl_ret"
    /\ IF dl.v.ok
       THEN gguf_model' = Some(dl.v.v) /\ Goto("template")
       ELSE UNCHANGED gguf_model /\ Goto("url_prompt")
    /\ model_url' = None
    /\ url' = None
    /\ response' = None
    /\ fname' = None
    /\ content' = None
    /\ dl' = None
    /\ UNCHANGED << cli, env, dir, cached_models, selection, selected,
                    tmpl_selection, template, trace, dir0, reg >>

\* download_model(model_url)? in command_start; download_model's locals die
DlReturn ==
    /\ pc = "dl_ret"
    /\ IF dl.v.ok
       THEN gguf_model' = Some(dl.v.v) /\ Goto("template")
       ELSE UNCHANGED gguf_model /\ ReturnErr(dl.v.e)
    /\ model_url' = None
    /\ url' = None
    /\ response' = None
    /\ fname' = None
    /\ content' = None
    /\ dl' = None
    /\ UNCHANGED << cli, env, dir, cached_models, selection, selected,
                    tmpl_selection, template, trace, dir0, reg >>

(***************************************************************************)
(* command_start: the prompt template, and the end of the function         *)
(***************************************************************************)
\* PROMPT_TEMPLATES[idx]
CatalogItem(idx) == PROMPT_TEMPLATES[idx + 1]

\* TemplateSelect with the Some arm taking the --prompt-template value and
\* showing no menu
TemplateSelectHonorsFlag ==
    /\ pc = "template"
    /\ IF prompt_template.some
       THEN /\ template' = prompt_template
            /\ Goto("final_scan")
            /\ UNCHANGED << trace, tmpl_selection >>
       ELSE /\ trace' = Append(trace, "template_chooser")
            /\ \E ans \in ChooserAnswers(Len(PROMPT_TEMPLATES)) :
                  IF ~ ans.ok
                  THEN ReturnErr(ans.e) /\ UNCHANGED << tmpl_selection, template >>
                  ELSE /\ tmpl_selection' = Some(ans.v)
                       /\ IF ans.v.some
                          THEN LET parsed == from_str(CatalogItem(ans.v.v))
                               IN  IF parsed.ok
                                   THEN template' = Some(parsed.v) /\ Goto("final_scan")
                                   ELSE UNCHANGED template /\ ReturnErr(parsed.e)
                          ELSE Panic("Fatal: No selection!") /\ UNCHANGED template
    /\ UNCHANGED << cli, env, dir, cached_models, selection, selected,
                    gguf_model, dl_locals, dir0, reg >>

\* TemplateSelect showing the menu again when the selection is cancelled
TemplateSelectAsksAgain ==
    /\ pc = "template"
    /\ trace' = Append(trace, "template_chooser")
    /\ \E ans \in ChooserAnswers(Len(PROMPT_TEMPLATES)) :
          IF ~ ans.ok
          THEN ReturnErr(ans.e) /\ UNCHANGED << tmpl_selection, template >>
          ELSE /\ tmpl_selection' = Some(ans.v)
               /\ IF ans.v.some
                  THEN LET parsed == from_str(CatalogItem(ans.v.v))
                       IN  IF parsed.ok
                           THEN template' = Some(parsed.v) /\ Goto("final_scan")
                           ELSE UNCHANGED template /\ ReturnErr(parsed.e)
                  ELSE Goto("template") /\ UNCHANGED template
    /\ UNCHANGED << cli, env, dir, cached_models, selection, selected,
                    gguf_model, dl_locals, dir0, reg >>

\* match prompt_template: both arms show the menu and parse the selection
TemplateSelect ==
    /\ pc = "template"
    /\ trace' = Append(trace, "template_chooser")
    /\ \E ans \in ChooserAnswers(Len(PROMPT_TEMPLATES)) :
          IF ~ ans.ok
          THEN ReturnErr(ans.e) /\ UNCHANGED << tmpl_selection, template >>
          ELSE /\ tmpl_selection' = Some(ans.v)
               /\ IF ans.v.some
                  THEN LET parsed == from_str(CatalogItem(ans.v.v))
                       IN  IF parsed.ok
                           THEN template' = Some(parsed.v) /\ Goto("final_scan")
                           ELSE UNCHANGED template /\ ReturnErr(parsed.e)
                  ELSE Panic("Fatal: No selection!") /\ UNCHANGED template
    /\ UNCHANGED << cli, env, dir, cached_models, selection, selected,
                    gguf_model, dl_locals, dir0, reg >>

\* the second listing of the working directory, then Ok(())
FinalScan ==
    /\ pc = "final_scan"
    /\ IF cwd_readable
       THEN /\ trace' = Append(trace, "list_dir")
            /\ result' = Some(Ok("unit"))
            /\ pc' = "main_ret"
            /\ UNCHANGED << panicked, exit >>
       ELSE /\ Panic("read_dir: unwrap on an Err value")
            /\ UNCHANGED trace
    /\ UNCHANGED << cli, env, dir, start_locals, dl_locals, dir0, reg >>

Next ==
    \/ MainDispatch
    \/ MainReturn
    \/ StartModel
    \/ ScanCache
    \/ OfferSkipped
    \/ OfferCached
    \/ CheckSelected
    \/ UrlPrompt
    \/ DlParse
    \/ DlGetFails
    \/ DlGet
    \/ DlFname
    \/ DlCreateFails
    \/ DlCreate
    \/ DlBodyFails
    \/ DlBody
    \/ DlCopyFails
    \/ DlCopy
    \/ DlReturn
    \/ TemplateSelect
    \/ FinalScan

Spec == Init /\ [][Next]_vars

\* the process runs on while it has a statement to execute: every prompt is
\* answered and every call returns
FairSpec == Spec /\ WF_vars(Next)

(***************************************************************************)
(* The registry on its own: from_str and fmt applied to strings and to     *)
(* variants.  The strings are every id Display writes, every catalog       *)
(* entry, the aliases from_str accepts, and strings that are no id.        *)
(***************************************************************************)
CanonicalIds == { fmt(t) : t \in PromptTemplateType }

CatalogIds == { PROMPT_TEMPLATES[i] : i \in 1..Len(PROMPT_TEMPLATES) }

AliasIds == { "belle-llama-2-chat", "human-assistant" }

OtherStrings ==
    { "not-a-template", "", "ChatML", "CHATML", "Llama-2-Chat", "llama-2",
      "llama-2-chat ", "zephyr-", "human_assistant", "gemma" }

RegStrings == CanonicalIds \cup CatalogIds \cup AliasIds \cup OtherStrings

main_vars ==
    << cli, pc, env, dir, start_locals, dl_locals, result, panicked, exit,
       trace, dir0 >>

\* from_str(s)
RegParse ==
    /\ reg_pc = "idle"
    /\ \E s \in RegStrings :
          /\ reg_in' = s
          /\ reg_parsed' = Some(from_str(s))
    /\ reg_pc' = "parsed"
    /\ UNCHANGED << reg_shown, main_vars >>

\* from_str(PROMPT_TEMPLATES[idx]), as command_start calls it
RegParseCatalog ==
    /\ reg_pc = "idle"
    /\ \E idx \in 0..(Len(PROMPT_TEMPLATES) - 1) :
          /\ reg_in' = CatalogItem(idx)
          /\ reg_parsed' = Some(from_str(CatalogItem(idx)))
    /\ reg_pc' = "catalog_parsed"
    /\ UNCHANGED << reg_shown, main_vars >>

\* fmt of the variant from_str returned
RegShowParsed ==
    /\ reg_pc \in { "parsed", "catalog_parsed" }
    /\ reg_parsed.v.ok
    /\ reg_shown' = Some(fmt(reg_parsed.v.v))
    /\ reg_pc' = "shown"
    /\ UNCHANGED << reg_in, reg_parsed, main_vars >>

\* fmt(t) for a variant t
RegShowVariant ==
    /\ reg_pc = "idle"
    /\ \E t \in PromptTemplateType :
          /\ reg_shown' = Some(fmt(t))
          /\ reg_parsed' = Some(Ok(t))
    /\ reg_pc' = "variant_shown"
    /\ UNCHANGED << reg_in, main_vars >>

\* from_str of what fmt wrote
RegParseShown ==
    /\ reg_pc = "variant_shown"
    /\ reg_in' = reg_shown.v
    /\ reg_parsed' = Some(from_str(reg_shown.v))
    /\ reg_pc' = "reparsed"
    /\ UNCHANGED << reg_shown, main_vars >>

RegInit ==
    /\ command = "Start"
    /\ model = None
    /\ prompt_template = None
    /\ pc = "done"
    /\ cwd_readable = TRUE
    /\ dir = << >>
    /\ dir0 = dir
    /\ cached_models = << >>
    /\ selection = None
    /\ selected = ""
    /\ gguf_model = None
    /\ tmpl_selection = None
    /\ template = None
    /\ model_url = None
    /\ url = None
    /\ response = None
    /\ fname = None
    /\ content = None
    /\ dl = None
    /\ result = None
    /\ panicked = None
    /\ exit = "running"
    /\ trace = << >>
    /\ RegIdle

RegNext ==
    \/ RegParse
    \/ RegParseCatalog
    \/ RegShowParsed
    \/ RegShowVariant
    \/ RegParseShown

RegSpec == RegInit /\ [][RegNext]_vars

(***************************************************************************)
(* Properties.                                                             *)
(***************************************************************************)
InTrace(ev) == \E i \in 1..Len(trace) : trace[i] = ev

IsPrefix(t, full) == Len(t) <= Len(full) /\ t = SubSeq(full, 1, Len(t))

\* the error command_start returned, if it returned one
ReturnedErr == result.some /\ ~ result.v.ok

\* C1: for every canonical template id s (the string Display writes for a
\* variant, and every entry of the catalog PROMPT_TEMPLATES), from_str(s)
\* succeeds and fmt of the variant it returns is s again.  Checked under
\* RegSpec at the states where from_str was applied to such an s.
C1_CanonicalRoundTrip ==
    reg_pc \in { "reparsed", "catalog_parsed" } =>
        /\ reg_parsed.v.ok
        /\ fmt(reg_parsed.v.v) = reg_in

\* C2: a confirmed selection of index i in the template menu resolves to a
\* template whose display string is the catalog entry at i, and the run does
\* not end in a parse error.
C2_CatalogSelectionResolves ==
    (tmpl_selection.some /\ tmpl_selection.v.some) =>
        /\ ~ (ReturnedErr /\ result.v.e.kind = "ParseError")
        /\ template.some
        /\ fmt(template.v) = CatalogItem(tmpl_selection.v.v)

\* C3: with --model m given and the template menu confirmed, the resolved
\* model path is m itself.
C3_ExplicitModelIsPath ==
    (model.some /\ tmpl_selection.some /\ tmpl_selection.v.some) =>
        gguf_model = Some(model.v)

\* C4 as stated: with --model given, the working directory is never listed,
\* the model menu and the URL prompt are never shown and no HTTP request is
\* made, in the whole run.
C4_NeverListsNorAsks ==
    model.some =>
        /\ ~ InTrace("list_dir")
        /\ ~ InTrace("model_chooser")
        /\ ~ InTrace("url_prompt")
        /\ ~ InTrace("http_get")

\* C4 amended: with --model given, the run's interactions are, in order, the
\* print of the model, the template menu and then one listing of the working
\* directory: nothing is listed before the template menu was answered, and
\* the model menu, the URL prompt, an HTTP request or a file creation never
\* happen.
C4_DiscoverySkipped ==
    model.some =>
        IsPrefix(trace, << "print_model", "template_chooser", "list_dir" >>)

C4_Witness ==
    /\ model.some
    /\ exit = "ok"
    /\ template.some
    /\ trace = << "print_model", "template_chooser", "list_dir" >>

\* the entries the scan put into cached_models (the menu's last entry, when
\* it was pushed, is the sentinel)
ScannedEntries ==
    LET real(x) == x # SENTINEL IN SelectSeq(cached_models, real)

\* the cache scan of this run has been done
Scanned == model = None /\ Len(trace) >= 1 /\ trace[1] = "list_dir"

\* C5: without --model and with a scan that found nothing, the model menu is
\* never shown in the run, and the step after the scan is the URL prompt: it
\* is the first interaction with the human.
C5_NoHitsGoesToUrlPrompt ==
    (Scanned /\ ScannedEntries = << >>) =>
        /\ ~ InTrace("model_chooser")
        /\ IF pc \in { "offer", "check_selected", "url_prompt" }
           THEN Len(trace) = 1
           ELSE Len(trace) >= 2 /\ trace[2] = "url_prompt"

C5_Witness ==
    /\ Scanned
    /\ ScannedEntries = << >>
    /\ Len(dir0) > 0
    /\ pc = "dl_parse"
    /\ trace = << "list_dir", "url_prompt" >>

\* C6: cancelling the model menu ends start with the error
\* ModelSelectionCancelled as command_start's return value (no abort), and
\* in that run there is no URL prompt, no network call, no file creation and
\* no template menu.
C6_ModelCancelIsError ==
    (selection.some /\ ~ selection.v.some) =>
        /\ panicked = None
        /\ ReturnedErr
        /\ result.v.e.kind = "ModelSelectionCancelled"
        /\ ~ InTrace("url_prompt")
        /\ ~ InTrace("http_get")
        /\ ~ InTrace("file_create")
        /\ ~ InTrace("template_chooser")
        /\ dir = dir0

\* C7: when download_model or the template parse returned an error inside
\* command_start, the start command as run by main ends in a failure, not
\* in success, and no later step of start has run.
C7_FailureReachesCaller ==
    (pc = "done" /\ ReturnedErr
        /\ result.v.e.kind \in { "InvalidUrl", "NoFilenameInUrl",
                                 "DownloadFailed", "ParseError" }) =>
        /\ exit # "ok"
        /\ result.v.e.kind # "ParseError" => ~ InTrace("template_chooser")
        /\ template = None

\* C8: a response with a non-success status makes download_model fail; it
\* never returns a local path for it.
C8_NonSuccessStatusFails ==
    (pc = "dl_ret" /\ response.some /\ response.v.status \notin 200..299) =>
        ~ dl.v.ok

\* C9: when the path of the response URL is empty or ends in "/", download_model
\* fails with NoFilenameInUrl and the working directory is as it was.
C9_NoFilenameNoFile ==
    (pc = "dl_ret" /\ response.some /\ ends_with(response.v.url.path, "/")) =>
        /\ dl.v = Err([kind |-> "NoFilenameInUrl"])
        /\ dir = dir0
        /\ ~ InTrace("file_create")

C9_Witness ==
    /\ pc = "dl_ret"
    /\ response.some
    /\ response.v.url.path = "/path/"
    /\ dl.v = Err([kind |-> "NoFilenameInUrl"])
    /\ Len(dir) > 0
    /\ dir = dir0

\* name is the last segment of path: path ends in "/" \o name, and name is
\* not empty and holds no "/"
IsLastSegment(path, name) ==
    /\ Len(name) > 0
    /\ \A i \in 1..Len(name) : SubSeq(name, i, i) # "/"
    /\ Len(path) > Len(name)
    /\ SubSeq(path, Len(path) - Len(name), Len(path)) = "/" \o name

\* C10: when download_model succeeds, what it returns is the last segment of
\* the response URL's path, and the working directory holds a file of that
\* name whose content is exactly the response body, whatever a file of that
\* name held before.
C10_DownloadedFileIsBody ==
    (pc = "dl_ret" /\ dl.v.ok) =>
        /\ IsLastSegment(response.v.url.path, dl.v.v)
        /\ FileContent(dir, dl.v.v) = Some(response.v.body)

\* a download that replaced the content of a file that was there
C10_Witness ==
    /\ pc = "dl_ret"
    /\ dl.v.ok
    /\ dl.v.v = "a.gguf"
    /\ FileContent(dir0, "a.gguf") = Some(<< 1 >>)
    /\ response.v.body = << 0, 1 >>
    /\ FileContent(dir, "a.gguf") = Some(<< 0, 1 >>)

\* the names a scan of directory d is to return: the entries that are files,
\* can be read and named, and whose name ends in ".gguf", in listing order
GgufFiles(d) ==
    LET wanted(e) ==
            /\ e.kind = "file"
            /\ e.ok
            /\ e.utf8
            /\ Len(e.name) >= 5
            /\ SubSeq(e.name, Len(e.name) - 4, Len(e.name)) = ".gguf"
        kept == SelectSeq(d, wanted)
    IN  [i \in 1..Len(kept) |-> kept[i].name]

\* C11: the cache scan returns exactly the entries of the working directory
\* that are files whose name ends in the case-sensitive suffix ".gguf", in
\* listing order; directories (also those named *.gguf), other names and
\* unreadable entries are left out.  Stated where the scan has just been done.
C11_ScanReturnsGgufFiles ==
    (Scanned /\ pc = "offer") => cached_models = GgufFiles(dir)

\* how often ev happened in the run so far
Count(ev) == Cardinality({ i \in 1..Len(trace) : trace[i] = ev })

\* C12: template resolution is always interactive.  Once the model is
\* resolved the template menu is shown exactly once (not before, and never a
\* second time), with or without --prompt-template, and the resolved template
\* is the catalog entry at the selected index: the --prompt-template value
\* plays no part.
C12_TemplateAlwaysAsked ==
    /\ Count("template_chooser") <= 1
    /\ InTrace("template_chooser") => gguf_model.some
    /\ (gguf_model.some /\ pc # "template") => Count("template_chooser") = 1
    /\ template.some =>
          /\ tmpl_selection.some
          /\ tmpl_selection.v.some
          /\ PROMPT_TEMPLATES[tmpl_selection.v.v + 1] = fmt(template.v)

\* a run given --prompt-template ChatML in which the menu chose llama-2-chat
C12_Witness ==
    /\ prompt_template = Some("ChatML")
    /\ exit = "ok"
    /\ Count("template_chooser") = 1
    /\ tmpl_selection = Some(Some(0))
    /\ template = Some("Llama2Chat")

\* C13: cancelling the template menu is fatal and typed: start ends with the
\* error TemplateSelectionCancelled as command_start's return value (no
\* abort), and no template is resolved although the model was.
C13_TemplateCancelIsError ==
    (tmpl_selection.some /\ ~ tmpl_selection.v.some) =>
        /\ panicked = None
        /\ ReturnedErr
        /\ result.v.e.kind = "TemplateSelectionCancelled"
        /\ template = None
        /\ gguf_model.some

\* C14: each alias from_str accepts ("belle-llama-2-chat", "human-assistant")
\* parses to its variant, HumanAssistant, and what fmt writes for that
\* variant is the variant's canonical id, the one the catalog lists, and not
\* an alias.
C14_AliasShowsCanonical ==
    (reg_in \in { "belle-llama-2-chat", "human-assistant" }
        /\ reg_pc \in { "parsed", "shown" }) =>
        /\ reg_parsed.v = Ok("HumanAssistant")
        /\ reg_pc = "shown" =>
              /\ reg_shown.v # reg_in
              /\ reg_shown.v \notin { "belle-llama-2-chat", "human-assistant" }
              /\ \E i \in 1..Len(PROMPT_TEMPLATES) : PROMPT_TEMPLATES[i] = reg_shown.v

C14_Witness ==
    /\ reg_pc = "shown"
    /\ reg_in = "belle-llama-2-chat"
    /\ reg_parsed.v = Ok("HumanAssistant")
    /\ reg_shown = Some("human-asistant")

\* the strings fmt writes and the aliases, written out
KnownIds ==
    { "llama-2-chat", "mistral-instruct", "mistrallite", "openchat",
      "codellama-instruct", "codellama-super-instruct", "human-asistant",
      "vicuna-1.0-chat", "vicuna-1.1-chat", "vicuna-llava", "chatml",
      "baichuan-2", "wizard-coder", "zephyr", "stablelm-zephyr",
      "intel-neural", "deepseek-chat", "deepseek-coder", "solar-instruct",
      "phi-2-chat", "phi-2-instruct", "gemma-instruct",
      "belle-llama-2-chat", "human-assistant" }

\* C15: from_str fails for every string that is no canonical id and no
\* alias, also for one that differs from an id only in case, and the error
\* carries that string; nothing else of the state changes.
C15_UnknownTemplateFails ==
    (reg_pc = "parsed" /\ reg_in \notin KnownIds) =>
        /\ ~ reg_parsed.v.ok
        /\ reg_parsed.v.e.msg = reg_in
        /\ reg_shown = None
        /\ pc = "done" /\ trace = << >> /\ dir = dir0 /\ result = None

C15_Witness ==
    /\ reg_pc = "parsed"
    /\ reg_in = "ChatML"
    /\ reg_parsed.v = Err([kind |-> "ParseError", msg |-> "ChatML"])

\* the model menu was answered with a confirmed selection
ModelChosen == selection.some /\ selection.v.some

\* C16: when the scan is not empty the menu holds the scanned entries in scan
\* order and then the sentinel, once, as its last entry.  A confirmed
\* selection of a scanned entry makes that entry the model, with no URL
\* prompt and no request; a confirmed selection of the sentinel leads to the
\* URL prompt.  The sentinel text is never the model path.
C16_MenuAndSentinel ==
    /\ gguf_model # Some(SENTINEL)
    /\ InTrace("model_chooser") =>
          LET n == Len(cached_models)
          IN  /\ n >= 2
              /\ cached_models[n] = SENTINEL
              /\ SubSeq(cached_models, 1, n - 1) = ScanGguf(dir0)
              /\ \A i \in 1..(n - 1) : cached_models[i] # SENTINEL
    /\ (ModelChosen /\ pc \notin { "check_selected" }) =>
          LET n == Len(cached_models)
              idx == selection.v.v
          IN  IF idx < n - 1
              THEN /\ gguf_model = Some(cached_models[idx + 1])
                   /\ ~ InTrace("url_prompt")
                   /\ ~ InTrace("http_get")
              ELSE /\ pc # "url_prompt" => InTrace("url_prompt")
                   /\ gguf_model.some => InTrace("file_write")

\* the sentinel was selected in a menu of two cached models, and the URL
\* prompt followed
C16_Witness ==
    /\ Len(cached_models) = 3
    /\ selection = Some(Some(2))
    /\ selected = SENTINEL
    /\ pc = "dl_parse"
    /\ trace = << "list_dir", "model_chooser", "url_prompt" >>

\* command_start returned the error of a failed download
DownloadErr ==
    /\ ReturnedErr
    /\ result.v.e.kind \in { "InvalidUrl", "NoFilenameInUrl", "DownloadFailed" }

\* C17: there is no retry.  A run shows at most one URL prompt and sends at
\* most one HTTP GET; a failed download is returned at once, and after it
\* the run holds no further prompt, request, file creation or menu.
C17_NoRetry ==
    /\ Count("url_prompt") <= 1
    /\ Count("http_get") <= 1
    /\ Count("file_create") <= 1
    /\ (pc = "dl_ret" /\ ~ dl.v.ok) =>
          trace[Len(trace)] \in { "url_prompt", "http_get", "file_create", "file_write" }
    /\ DownloadErr =>
          /\ pc \in { "main_ret", "done" }
          /\ trace[Len(trace)] \in { "url_prompt", "http_get", "file_create", "file_write" }
          /\ ~ InTrace("template_chooser")
          /\ gguf_model = None

\* a run that ended after one request that got no response
C17_Witness ==
    /\ pc = "done"
    /\ DownloadErr
    /\ result.v.e = [kind |-> "DownloadFailed", cause |-> "connect"]
    /\ trace = << "list_dir", "url_prompt", "http_get" >>

\* s is the start of t
IsStartOf(s, t) == Len(s) <= Len(t) /\ s = SubSeq(t, 1, Len(s))

\* the file download_model created is still there after it failed, holding
\* nothing or a cut-off start of the body
LeftoverFile ==
    /\ fname.some
    /\ IsLastSegment(response.v.url.path, fname.v)
    /\ FileContent(dir, fname.v).some
    /\ LET left == FileContent(dir, fname.v).v
       IN  /\ IsStartOf(left, response.v.body)
           /\ left = << >> \/ Len(left) < Len(response.v.body)

\* download_model is returning an error after it had created its file
FailedAfterCreate == pc = "dl_ret" /\ ~ dl.v.ok /\ InTrace("file_create")

\* C18 as stated: when download_model fails after it created the file, the
\* file, empty or truncated, is still in the working directory under the
\* final name, and a later scan would offer it as a cached model.
C18_LeftoverIsOffered ==
    FailedAfterCreate =>
        /\ LeftoverFile
        /\ \E i \in 1..Len(ScanGguf(dir)) : ScanGguf(dir)[i] = fname.v

\* C18 amended: when download_model fails after it created the file, the
\* file, empty or truncated, is still in the working directory under the
\* final name, and a later scan would offer it as a cached model when that
\* name ends in ".gguf" (and only then).
C18_LeftoverRemains ==
    FailedAfterCreate =>
        /\ LeftoverFile
        /\ dl.v.e.kind = "DownloadFailed"
        /\ dl.v.e.cause \in { "body", "write" }
        /\ (\E i \in 1..Len(ScanGguf(dir)) : ScanGguf(dir)[i] = fname.v)
              <=> ends_with(fname.v, ".gguf")

\* a write error after one of two bytes, in a directory that held no model
C18_Witness ==
    /\ FailedAfterCreate
    /\ dl.v.e.cause = "write"
    /\ fname = Some("model-file.Q4.gguf")
    /\ response.v.body = << 0, 1 >>
    /\ FileContent(dir, "model-file.Q4.gguf") = Some(<< 0 >>)
    /\ ScanGguf(dir0) = << >>
    /\ ScanGguf(dir) = << "model-file.Q4.gguf" >>

\* the position of ev in the run so far, 0 when it did not happen
FirstAt(ev) ==
    IF InTrace(ev) THEN CHOOSE i \in 1..Len(trace) : trace[i] = ev ELSE 0

\* the text is no absolute http(s) URL
Malformed(text) ==
    /\ ~ (Len(text) > 7 /\ SubSeq(text, 1, 7) = "http://")
    /\ ~ (Len(text) > 8 /\ SubSeq(text, 1, 8) = "https://")

\* C19: download_model goes URL parse, HTTP GET, file name, file creation,
\* body write, in that order.  A malformed URL fails with InvalidUrl with no
\* request sent and no file created; a file is created only after the
\* response has arrived, and written only after it was created.
C19_AcquireOrder ==
    /\ InTrace("http_get") => FirstAt("url_prompt") < FirstAt("http_get")
    /\ InTrace("file_create") =>
          /\ InTrace("http_get")
          /\ FirstAt("http_get") < FirstAt("file_create")
          /\ pc \in { "dl_body", "dl_copy", "dl_ret" } => response.some
    /\ InTrace("file_write") => FirstAt("file_create") < FirstAt("file_write")
    /\ dir # dir0 => InTrace("file_create")
    /\ (pc \in { "dl_get", "dl_fname", "dl_create", "dl_body", "dl_copy" }) =>
          ~ Malformed(model_url.v)
    /\ (pc = "dl_ret" /\ Malformed(model_url.v)) =>
          /\ dl.v = Err([kind |-> "InvalidUrl"])
          /\ ~ InTrace("http_get")
          /\ ~ InTrace("file_create")
          /\ dir = dir0

C19_Witness ==
    /\ pc = "dl_ret"
    /\ model_url = Some("not a url")
    /\ dl.v = Err([kind |-> "InvalidUrl"])
    /\ trace = << "list_dir", "url_prompt" >>
    /\ Len(dir) > 0

\* a run of the start command
StartRun == command = "Start"

\* how command_start ended: with Ok, with an error, or in a panic
EndedOk == result.some /\ result.v.ok /\ panicked = None
EndedErr == result.some /\ ~ result.v.ok /\ panicked = None
EndedPanic == result = None /\ panicked.some

\* what holds of every state of a run of start: each prompt at most once,
\* the template menu only with the model resolved, and one outcome at the end
C20_Once ==
    StartRun =>
        /\ Count("model_chooser") <= 1
        /\ Count("url_prompt") <= 1
        /\ Count("template_chooser") <= 1
        /\ InTrace("template_chooser") => gguf_model.some
        /\ pc = "done" =>
              \/ EndedOk /\ ~ EndedErr /\ ~ EndedPanic
              \/ EndedErr /\ ~ EndedOk /\ ~ EndedPanic
              \/ EndedPanic /\ ~ EndedOk /\ ~ EndedErr
        /\ pc # "done" => (result = None \/ pc = "main_ret") /\ panicked = None

\* C20: every run of start ends, given that each prompt is answered and the
\* request returns: the workflow has no loop, the model menu, the URL prompt
\* and the template menu are each shown at most once, the template menu only
\* after the model was resolved, and the run ends in exactly one of success
\* and failure (an error returned, or a panic).
C20_Terminates == []C20_Once /\ <>(pc = "done")

\* a run that went through both menus, the URL prompt and a download, and
\* ended in success
C20_Witness ==
    /\ StartRun
    /\ pc = "done"
    /\ EndedOk
    /\ trace = << "list_dir", "model_chooser", "url_prompt", "http_get",
                  "file_create", "file_write", "template_chooser", "list_dir" >>

====
